---- MODULE Spec2Model ----
(***************************************************************************)
(* Model of the kluster-capacity simulation framework:                     *)
(*   pkg/framework/generic.go   genericSimulator (InitTheWorld, preAdd,    *)
(*                              Stop, Run, CreatePod, the Status updates), *)
(*                              getInitObjects                             *)
(*   pkg/plugins/generic        GenericBinder (Bind, PostBind)             *)
(* The specifications share the variables:                                 *)
(*   SpecPreAdd  the sanitizer preAdd as a function of options and object  *)
(*   SpecWorld   the isolated store under InitTheWorld, CreatePod and Bind *)
(*   SpecInit    InitTheWorld with explicit objects, called repeatedly     *)
(*   SpecBind    the binding cycles, with and without a post-bind hook     *)
(*   SpecLoader  concurrent calls of the snapshot loader getInitObjects    *)
(*   SpecStatus  the writers of the Status: Stop and the update calls      *)
(*   Spec        the Run/Stop lifecycle with concurrent Stop callers       *)
(*   SpecFair    Spec with every goroutine scheduled fairly                *)
(***************************************************************************)
EXTENDS Integers, Sequences, FiniteSets, TLC

VARIABLES
    \* options of the genericSimulator (generic.go:83-106)
    excludeNodes, withScheduledPods, withNodeImages, ignorePodsOnExcludesNode,
    saveTo,
    \* one call of preAdd: its argument and what it returned
    arg, res,
    \* the isolated store (the fake clientset's object tracker)
    store,
    \* the last call completed on the store
    last,
    \* the Bind calls of the scheduling engine
    bind,
    \* lifecycle: stopped flag, stopMux, the three channels, status, file
    stopped, stopMux, closed, status, file,
    \* the Stop calls, the Run call, the informer caches, the engine loop
    stop, run, synced, engine,
    \* the package-level once and initObjects, the process, the list calls made
    \* on the real cluster and what each kind's lookup gave, the Loader calls
    once, initObjects, proc, listCalls, lookup, load,
    \* the result-capture hook of the binder and its PostBind calls
    postBindHook, post,
    \* the calls of UpdateScheduledPods and UpdateNodesToScaleDown
    update

cfgVars == <<excludeNodes, withScheduledPods, withNodeImages,
             ignorePodsOnExcludesNode, saveTo>>
sanVars == <<arg, res>>
worldVars == <<store, last, bind>>
lifeVars == <<stopped, stopMux, closed, status, file, stop, run, synced, engine>>
loadVars == <<once, initObjects, proc, listCalls, lookup, load>>
hookVars == <<postBindHook, post>>
vars == <<cfgVars, sanVars, worldVars, lifeVars, loadVars, hookVars, update>>

----------------------------------------------------------------------------
(* Objects *)

NodeNames == {"n1", "n2"}

\* a nil slice / map is told apart from an empty one
NilList == [isNil |-> TRUE, items |-> <<>>]
List(s) == [isNil |-> FALSE, items |-> s]

NilSet == [isNil |-> TRUE, names |-> {}]
StringSet(s) == [isNil |-> FALSE, names |-> s]

\* every object has the same shape; fields a kind does not have stay empty
Object(kind, ns, name) ==
    [kind |-> kind, namespace |-> ns, name |-> name, nodeName |-> "",
     phase |-> "", ownerRefs |-> NilList, deleted |-> FALSE,
     images |-> NilList, unstructured |-> FALSE]

Pod(name, nodeName, phase, owners, deleted) ==
    [Object("Pod", "default", name) EXCEPT
        !.nodeName = nodeName, !.phase = phase, !.ownerRefs = owners,
        !.deleted = deleted]

Node(name, images) == [Object("Node", "", name) EXCEPT !.images = images]

\* preAdd returns (false, nil) when it drops the object
NilObject == Object("", "", "")

\* (kind, namespace, name) identifies an object in the tracker
Key(obj) == <<obj.kind, obj.namespace, obj.name>>

----------------------------------------------------------------------------
(* The sanitizer, generic.go:400-432 *)

\* utils.InitPod: a copy of the pod with node assignment and status reset
InitPod(pod) == [pod EXCEPT !.nodeName = "", !.phase = ""]

\* generic.go:404-405
OnExcludedNodeMut(pod) == FALSE

OnExcludedNode(pod) ==
    ~excludeNodes.isNil /\ pod.nodeName \in excludeNodes.names

\* generic.go:406, pod.OwnerReferences[0] of an empty non-nil list
OwnerIndexFault(pod) ==
    /\ ~ignorePodsOnExcludesNode
    /\ ~pod.ownerRefs.isNil
    /\ Len(pod.ownerRefs.items) = 0

\* generic.go:406, the right operand of ||
FirstOwnerIsDaemonSetMut(pod) ==
    /\ ~pod.ownerRefs.isNil
    /\ pod.ownerRefs.items[1] # "DaemonSet"

FirstOwnerIsDaemonSet(pod) ==
    /\ ~pod.ownerRefs.isNil
    /\ pod.ownerRefs.items[1] = "DaemonSet"

\* generic.go:412
TerminalOrDeleted(pod) == pod.phase \in {"Succeeded", "Failed"} \/ pod.deleted

\* generic.go:421-422
NodeExcludedMut(node) == FALSE

NodeExcluded(node) == ~excludeNodes.isNil /\ node.name \in excludeNodes.names

\* generic.go:416-417
ResetPodMut(pod) == InitPod(pod)

ResetPod(pod) == [InitPod(pod) EXCEPT !.phase = "Pending"]

Ret(fault, needAdd, obj) == [fault |-> fault, needAdd |-> needAdd, obj |-> obj]

preAdd(obj) ==
    IF obj.kind = "Pod" THEN
        IF OnExcludedNode(obj) /\ OwnerIndexFault(obj)
        THEN Ret(TRUE, FALSE, NilObject)          \* index out of range
        ELSE IF OnExcludedNode(obj)
                /\ (ignorePodsOnExcludesNode \/ FirstOwnerIsDaemonSet(obj))
        THEN Ret(FALSE, FALSE, NilObject)
        ELSE IF TerminalOrDeleted(obj)
        THEN Ret(FALSE, FALSE, NilObject)
        ELSE IF ~withScheduledPods
        THEN Ret(FALSE, TRUE, ResetPod(obj))
        ELSE Ret(FALSE, TRUE, obj)
    ELSE IF obj.kind = "Node" /\ ~excludeNodes.isNil THEN
        IF NodeExcluded(obj)
        THEN Ret(FALSE, FALSE, NilObject)
        ELSE IF ~withNodeImages
        THEN Ret(FALSE, TRUE, [obj EXCEPT !.images = NilList])
        ELSE Ret(FALSE, TRUE, obj)
    ELSE Ret(FALSE, TRUE, obj)

----------------------------------------------------------------------------
(* The isolated store: the object tracker behind the fake clientset *)

Has(st, k) == k \in DOMAIN st

Put(st, obj) == [k \in DOMAIN st \cup {Key(obj)} |->
                    IF k = Key(obj) THEN obj ELSE st[k]]

\* Nodes().List of generic.go:281-284 gathered into nodeMap by name
NodeMapOf(st) ==
    LET names == {k[3] : k \in {x \in DOMAIN st : x[1] = "Node"}}
    IN  [n \in names |-> st[<<"Node", "", n>>]]

----------------------------------------------------------------------------
(* pkg.Status and its JSON document, generic.go:498-508 *)

NilMap == [isNil |-> TRUE, m |-> <<>>]
Map(m) == [isNil |-> FALSE, m |-> m]

EmptyStatus ==
    [Pods |-> NilList, Nodes |-> NilMap, PodsForEstimation |-> NilList,
     NodesToScaleDown |-> NilList, StopReason |-> ""]

\* a JSON value: null, or a value
JNull == [null |-> TRUE, value |-> <<>>]
JVal(v) == [null |-> FALSE, value |-> v]

JList(l) == IF l.isNil THEN JNull ELSE JVal(l.items)

NodeJSON(node) ==
    [metadata |-> [name |-> node.name], status |-> [images |-> JList(node.images)]]

\* json.Marshal(s.status) with the field tags of pkg.Status
Marshal(st) ==
    [pods |-> JList(st.Pods),
     nodes |-> IF st.Nodes.isNil THEN JNull
               ELSE JVal([n \in DOMAIN st.Nodes.m |-> NodeJSON(st.Nodes.m[n])]),
     pods_for_estimation |-> JList(st.PodsForEstimation),
     nodes_to_scale_down |-> JList(st.NodesToScaleDown),
     stop_reason |-> st.StopReason]

NoFile == [state |-> "absent", doc |-> Marshal(EmptyStatus)]

----------------------------------------------------------------------------
(* Stop, generic.go:279-324 *)

NumStopCalls == 2
StopCalls == 1..NumStopCalls
Reasons == {"done", "failed"}
Channels == {"stopCh", "informerCh", "schedulerCh"}

IsClosed(ch) == closed[ch] > 0

\* a Stop call: where it is, its argument, its nodeMap, what it returned,
\* how its save went, whether it went through the shutdown, and whether it
\* was made after the shutdown was complete
IdleStop == [pc |-> "idle", reason |-> "", nodeMap |-> <<>>, ret |-> "",
             save |-> "", performed |-> FALSE, late |-> FALSE]

\* a Stop call has gone through the shutdown and returned
ShutdownComplete ==
    \E c \in StopCalls : stop[c].performed /\ stop[c].pc = "done"

\* what a deferred unlock and a return leave behind
Return(c, how, saved) ==
    /\ stop' = [stop EXCEPT ![c].pc = "done", ![c].ret = how,
                            ![c].save = saved, ![c].nodeMap = <<>>]
    /\ stopMux' = 0

\* generic.go:280-284
StopList(c, reason) ==
    /\ stop[c].pc = "idle"
    /\ stop' = [stop EXCEPT ![c].pc = "lock", ![c].reason = reason,
                            ![c].nodeMap = NodeMapOf(store),
                            ![c].late = ShutdownComplete]
    /\ UNCHANGED <<cfgVars, hookVars, update, loadVars, sanVars, worldVars,
                   stopped, stopMux, closed, status, file, run, synced,
                   engine>>

\* generic.go:286
StopLock(c) ==
    /\ stop[c].pc = "lock"
    /\ stopMux = 0
    /\ stopMux' = c
    /\ stop' = [stop EXCEPT ![c].pc = "check"]
    /\ UNCHANGED <<cfgVars, hookVars, update, loadVars, sanVars, worldVars,
                   stopped, closed, status, file, run, synced, engine>>

\* generic.go:291
AlreadyStoppedMut == FALSE

AlreadyStopped == stopped

\* generic.go:291-293
StopCheck(c) ==
    /\ stop[c].pc = "check"
    /\ IF AlreadyStopped
       THEN Return(c, "nil", "")
       ELSE /\ stop' = [stop EXCEPT ![c].pc = "save"]
            /\ UNCHANGED stopMux
    /\ UNCHANGED <<cfgVars, hookVars, update, loadVars, sanVars, worldVars,
                   stopped, closed, status, file, run, synced, engine>>

\* generic.go:295-311; the outcome of OpenFile, Marshal and Write is the
\* environment's
SaveOutcomes == {"ok", "open", "marshal", "write"}

StopSave(c) ==
    /\ stop[c].pc = "save"
    /\ IF saveTo = ""
       THEN /\ stop' = [stop EXCEPT ![c].pc = "reason"]
            /\ UNCHANGED <<stopMux, file>>
       ELSE \E outcome \in SaveOutcomes :
            CASE outcome = "open" ->          \* panic(err), generic.go:298
                    /\ Return(c, "panic", outcome)
                    /\ UNCHANGED file
              [] outcome = "marshal" ->       \* return err, generic.go:304
                    /\ Return(c, "error", outcome)
                    /\ file' = IF file.state = "absent"
                               THEN [file EXCEPT !.state = "empty"] ELSE file
              [] outcome = "write" ->         \* return err, generic.go:309
                    /\ Return(c, "error", outcome)
                    /\ file' = [file EXCEPT !.state = "torn"]
              [] outcome = "ok" ->
                    /\ file' = [state |-> "written", doc |-> Marshal(status)]
                    /\ stop' = [stop EXCEPT ![c].pc = "reason",
                                            ![c].save = outcome]
                    /\ UNCHANGED stopMux
    /\ UNCHANGED <<cfgVars, hookVars, update, loadVars, sanVars, worldVars,
                   stopped, closed, status, run, synced, engine>>

\* generic.go:319
StopSetReason(c) ==
    /\ stop[c].pc = "reason"
    /\ status' = [status EXCEPT !.StopReason = stop[c].reason]
    /\ stop' = [stop EXCEPT ![c].pc = "nodes"]
    /\ UNCHANGED <<cfgVars, hookVars, update, loadVars, sanVars, worldVars,
                   stopped, stopMux, closed, file, run, synced, engine>>

\* generic.go:320
StopSetNodes(c) ==
    /\ stop[c].pc = "nodes"
    /\ status' = [status EXCEPT !.Nodes = Map(stop[c].nodeMap)]
    /\ stop' = [stop EXCEPT ![c].pc = "stopped"]
    /\ UNCHANGED <<cfgVars, hookVars, update, loadVars, sanVars, worldVars,
                   stopped, stopMux, closed, file, run, synced, engine>>

\* generic.go:321
StopSetStopped(c) ==
    /\ stop[c].pc = "stopped"
    /\ stopped' = TRUE
    /\ stop' = [stop EXCEPT ![c].pc = "stopCh", ![c].performed = TRUE]
    /\ UNCHANGED <<cfgVars, hookVars, update, loadVars, sanVars, worldVars,
                   stopMux, closed, status, file, run, synced, engine>>

\* the deferred closes of generic.go:313-317, in their order
NextCloseMut(ch) == "unlock"

NextClose(ch) ==
    CASE ch = "stopCh" -> "informerCh"
      [] ch = "informerCh" -> "schedulerCh"
      [] ch = "schedulerCh" -> "unlock"

\* close of a closed channel panics; the deferred unlock still runs
StopClose(c) ==
    /\ stop[c].pc \in Channels
    /\ closed' = [closed EXCEPT ![stop[c].pc] = @ + 1]
    /\ IF IsClosed(stop[c].pc)
       THEN Return(c, "panic", stop[c].save)
       ELSE /\ stop' = [stop EXCEPT ![c].pc = NextClose(stop[c].pc)]
            /\ UNCHANGED stopMux
    /\ UNCHANGED <<cfgVars, hookVars, update, loadVars, sanVars, worldVars,
                   stopped, status, file, run, synced, engine>>

\* generic.go:323 and the deferred unlock of generic.go:287-289
StopUnlock(c) ==
    /\ stop[c].pc = "unlock"
    /\ Return(c, "nil", stop[c].save)
    /\ UNCHANGED <<cfgVars, hookVars, update, loadVars, sanVars, worldVars,
                   stopped, closed, status, file, run, synced, engine>>

----------------------------------------------------------------------------
(* UpdateScheduledPods and UpdateNodesToScaleDown, generic.go:267-273 *)

NumUpdateCalls == 2
UpdateCalls == 1..NumUpdateCalls

\* the field of the Status each of them appends to
FieldOf(op) == IF op = "UpdateScheduledPods" THEN "Pods" ELSE "NodesToScaleDown"

IdleUpdate == [pc |-> "idle", op |-> "", x |-> <<>>, old |-> NilList,
               late |-> FALSE]

\* append(s, x...) of a nil or non-nil slice
AppendAll(l, x) == List(l.items \o x)

\* generic.go:268 and 272, the right-hand side: the slice is read, with no
\* lock held
UpdateRead(u, op, x) ==
    /\ update[u].pc = "idle"
    /\ update' = [update EXCEPT ![u] =
                    [pc |-> "write", op |-> op, x |-> x,
                     old |-> status[FieldOf(op)], late |-> ShutdownComplete]]
    /\ UNCHANGED <<cfgVars, hookVars, loadVars, sanVars, worldVars, lifeVars>>

\* generic.go:268 and 272, the assignment: the appended slice is stored
UpdateWrite(u) ==
    /\ update[u].pc = "write"
    /\ status' = [status EXCEPT ![FieldOf(update[u].op)] =
                                    AppendAll(update[u].old, update[u].x)]
    /\ update' = [update EXCEPT ![u].pc = "done", ![u].old = NilList]
    /\ UNCHANGED <<cfgVars, hookVars, loadVars, sanVars, worldVars, stopped,
                   stopMux, closed, file, stop, run, synced, engine>>

\* generic.go:267: the pods come by value into Status.Pods
UpdateScheduledPods(u, pods) == UpdateRead(u, "UpdateScheduledPods", pods)

\* generic.go:271
UpdateNodesToScaleDown(u, nodeName) ==
    UpdateRead(u, "UpdateNodesToScaleDown", <<nodeName>>)

----------------------------------------------------------------------------
(* Run, generic.go:331-340 *)

\* the informers started at generic.go:211 finish their initial list
InformerSync ==
    /\ ~synced
    /\ ~IsClosed("informerCh")
    /\ synced' = TRUE
    /\ UNCHANGED <<cfgVars, hookVars, update, loadVars, sanVars, worldVars,
                   stopped, stopMux, closed, status, file, stop, run, engine>>

RunCall ==
    /\ run.pc = "idle"
    /\ run' = [run EXCEPT !.pc = "sync"]
    /\ UNCHANGED <<cfgVars, hookVars, update, loadVars, sanVars, worldVars,
                   stopped, stopMux, closed, status, file, stop, synced,
                   engine>>

\* generic.go:333-335: WaitForCacheSync returns once the caches are synced or
\* informerCh is closed; then the engine's run loop is started
RunStartEngine ==
    /\ run.pc = "sync"
    /\ synced \/ IsClosed("informerCh")
    /\ engine' = "running"
    /\ run' = [run EXCEPT !.pc = "wait"]
    /\ UNCHANGED <<cfgVars, hookVars, update, loadVars, sanVars, worldVars,
                   stopped, stopMux, closed, status, file, stop, synced>>

\* the context handed to scheduler.Run at generic.go:335 is context.TODO(),
\* which is never done; schedulerCh went to scheduler.New (generic.go:389)
ContextDone == FALSE

\* the run loop started at generic.go:335: at its head it ends when its
\* context is done, and goes into the next scheduling cycle when not
SchedulerRun ==
    /\ engine = "running"
    /\ engine' = IF ContextDone THEN "ended" ELSE "cycle"
    /\ UNCHANGED <<cfgVars, hookVars, update, loadVars, sanVars, worldVars,
                   stopped, stopMux, closed, status, file, stop, run, synced>>

\* a scheduling cycle comes to its end, and the loop is at its head again
ScheduleOne ==
    /\ engine = "cycle"
    /\ engine' = "running"
    /\ UNCHANGED <<cfgVars, hookVars, update, loadVars, sanVars, worldVars,
                   stopped, stopMux, closed, status, file, stop, run, synced>>

\* generic.go:337, <-s.stopCh
StopSignalledMut == TRUE

StopSignalled == IsClosed("stopCh")

\* generic.go:337-339
RunReturn ==
    /\ run.pc = "wait"
    /\ StopSignalled
    /\ run' = [run EXCEPT !.pc = "done", !.ret = "nil"]
    /\ UNCHANGED <<cfgVars, hookVars, update, loadVars, sanVars, worldVars,
                   stopped, stopMux, closed, status, file, stop, synced,
                   engine>>

----------------------------------------------------------------------------
(* InitTheWorld with explicit objects, generic.go:236-265 *)

\* the call that last completed on the store, as its caller saw it: the
\* operation, its arguments, whether the store was empty before it, the
\* client error behind a Bind failure, and what it returned
NoCall == [op |-> "", args |-> <<>>, fresh |-> FALSE, cause |-> "", ret |-> ""]

Call(op, args, cause, ret) ==
    [op |-> op, args |-> args, fresh |-> store = <<>>, cause |-> cause,
     ret |-> ret]

\* Tracker().Add, generic.go:257: an identity already in the store is refused
TrackerAddMut(st, obj) == [err |-> "nil", store |-> Put(st, obj)]

TrackerAdd(st, obj) ==
    IF Has(st, Key(obj))
    THEN [err |-> "exists", store |-> st]
    ELSE [err |-> "nil", store |-> Put(st, obj)]

\* the loop of generic.go:252-261 from the i-th object on
RECURSIVE InitLoop(_, _, _)
InitLoop(st, objs, i) ==
    IF i > Len(objs) THEN [err |-> "nil", store |-> st]
    ELSE IF objs[i].unstructured THEN [err |-> "unstructured", store |-> st]
    ELSE LET r == preAdd(objs[i]) IN
         IF r.fault THEN [err |-> "panic", store |-> st]
         ELSE IF ~r.needAdd THEN InitLoop(st, objs, i + 1)
         ELSE LET a == TrackerAdd(st, r.obj) IN
              IF a.err # "nil" THEN a
              ELSE InitLoop(a.store, objs, i + 1)

InitTheWorld(objs) ==
    /\ Len(objs) > 0
    /\ LET r == InitLoop(store, objs, 1) IN
        /\ store' = r.store
        /\ last' = Call("InitTheWorld", objs, "", r.err)
    /\ UNCHANGED <<cfgVars, hookVars, update, loadVars, sanVars, bind,
                   lifeVars>>

\* generic.go:326-329: Create stores the pod as given, unless it exists
CreatePod(pod) ==
    /\ LET a == TrackerAdd(store, pod) IN
        /\ store' = a.store
        /\ last' = Call("CreatePod", <<pod>>, "", a.err)
    /\ UNCHANGED <<cfgVars, hookVars, update, loadVars, sanVars, bind,
                   lifeVars>>

----------------------------------------------------------------------------
(* GenericBinder.Bind, plugins/generic:31-45 *)

\* the binding cycles the engine runs at once; each makes one Bind call after
\* another
NumBindCalls == 1
BindCalls == 1..NumBindCalls

IdleBind == [pc |-> "idle", key |-> Key(NilObject), node |-> "",
             pod |-> NilObject, gets |-> 0, updates |-> 0]

\* a PostBind call of a binding cycle: whether it is due, the pod it is for,
\* and how often it called the hook, with what and to what end
IdlePost == [pc |-> "idle", pod |-> Key(NilObject), calls |-> 0,
             arg |-> Key(NilObject), err |-> ""]

\* plugins/generic:33-35 and 40-44: an error of the client becomes an Error
\* status, and no error the nil status
StatusOfMut(err) == "Success"

StatusOf(err) == IF err = "" THEN "Success" ELSE "Error"

\* plugins/generic:36-38
BoundCopyMut(pod, nodeName) == [pod EXCEPT !.nodeName = nodeName]

BoundCopy(pod, nodeName) ==
    [pod EXCEPT !.nodeName = nodeName, !.phase = "Running"]

\* the locals of a call are gone once it has returned
BindReturn(r, gets, updates) ==
    [IdleBind EXCEPT !.pc = "done", !.gets = r.gets + gets,
                     !.updates = r.updates + updates]

\* plugins/generic:32-35: Get by namespace and name; refused is a failure the
\* client injects, a pod that is not in the store is not found
BindGet(b, k, nodeName, refused) ==
    /\ bind[b].pc \in {"idle", "done"}
    /\ post[b].pc # "due"
    /\ post' = [post EXCEPT ![b] = IdlePost]
    /\ IF refused \/ ~Has(store, k)
       THEN /\ bind' = [bind EXCEPT ![b] = BindReturn(IdleBind, 1, 0)]
            /\ last' = Call("Bind", <<k, nodeName>>, "get", StatusOf("get"))
       ELSE /\ bind' = [bind EXCEPT ![b] =
                        [IdleBind EXCEPT !.pc = "update", !.key = k,
                                         !.node = nodeName, !.gets = 1,
                                         !.pod = store[k]]]
            /\ UNCHANGED last
    /\ UNCHANGED <<cfgVars, postBindHook, update, loadVars, sanVars, store,
                   lifeVars>>

\* plugins/generic:36-44: Update replaces the stored pod by the copy
BindUpdate(b, refused) ==
    /\ bind[b].pc = "update"
    /\ bind' = [bind EXCEPT ![b] = BindReturn(@, 0, 1)]
    /\ LET updatedPod == BoundCopy(bind[b].pod, bind[b].node)
           args == <<bind[b].key, bind[b].node>>
       IN  IF refused \/ ~Has(store, Key(updatedPod))
           THEN /\ last' = Call("Bind", args, "update", StatusOf("update"))
                /\ UNCHANGED <<store, post>>
           ELSE /\ last' = Call("Bind", args, "", StatusOf(""))
                /\ store' = Put(store, updatedPod)
                /\ post' = [post EXCEPT ![b] =
                                [IdlePost EXCEPT !.pc = "due",
                                                 !.pod = Key(updatedPod)]]
    /\ UNCHANGED <<cfgVars, postBindHook, update, loadVars, sanVars, lifeVars>>

----------------------------------------------------------------------------
(* The World Snapshot Loader, getInitObjects, generic.go:450-488 *)

\* the keys of initResources, generic.go:57-67; the model ranges over the
\* first NumKinds of them
AllKinds == <<"Node", "Pod", "Namespace", "PersistentVolume",
              "PersistentVolumeClaim", "StorageClass", "CSINode", "CSIDriver",
              "CSIStorageCapacity">>
NumKinds == 2
Kinds == {AllKinds[i] : i \in 1..NumKinds}

NumLoadCalls == 2
LoadCalls == 1..NumLoadCalls

\* what the real cluster holds of a kind: one object
ItemsOf(k) == <<k>>

\* RESTMapping (generic.go:454) and List (generic.go:466, 472) as the real
\* cluster answers them
MappingOutcomes == {"ok", "nomatch", "error"}
ListOutcomes == {"ok", "notfound", "error"}

\* a nil *UnstructuredList is told apart from an empty one
NilItems == [isNil |-> TRUE, items |-> <<>>]

IdleLoad == [pc |-> "idle", kind |-> "", todo |-> {}, list |-> NilItems,
             ret |-> <<>>]

NewOnce == [done |-> FALSE, m |-> 0]

LoaderConstructed ==
    /\ once = NewOnce
    /\ initObjects = <<>>
    /\ proc = "running"
    /\ listCalls = [k \in Kinds |-> 0]
    /\ lookup = [k \in Kinds |-> ""]
    /\ load = [c \in LoadCalls |-> IdleLoad]

\* generic.go:450
GetInitObjects(c) ==
    /\ proc = "running"
    /\ load[c].pc = "idle"
    /\ load' = [load EXCEPT ![c].pc = "once"]
    /\ UNCHANGED <<cfgVars, hookVars, update, sanVars, worldVars, lifeVars,
                   once, initObjects, proc, listCalls, lookup>>

\* generic.go:451, once.Do: a caller that finds the once done goes on; the
\* others take its mutex one at a time, and the first of them runs the function
OnceDo(c) ==
    /\ proc = "running"
    /\ load[c].pc = "once"
    /\ IF once.done
       THEN /\ load' = [load EXCEPT ![c].pc = "return"]
            /\ UNCHANGED once
       ELSE /\ once.m = 0
            /\ once' = [once EXCEPT !.m = c]
            /\ load' = [load EXCEPT ![c].pc = "range", ![c].todo = Kinds]
    /\ UNCHANGED <<cfgVars, hookVars, update, sanVars, worldVars, lifeVars,
                   initObjects, proc, listCalls, lookup>>

\* generic.go:453-460: the next kind of the range, in any order, and its
\* RESTMapping
ResolveKind(c, k, outcome) ==
    /\ proc = "running"
    /\ load[c].pc = "range"
    /\ k \in load[c].todo
    /\ CASE outcome = "error" ->              \* os.Exit(1), generic.go:457
              /\ proc' = "exited"
              /\ UNCHANGED <<load, lookup>>
         [] outcome = "nomatch" ->            \* restMapping == nil
              /\ load' = [load EXCEPT ![c].todo = @ \ {k}]
              /\ lookup' = [lookup EXCEPT ![k] = outcome]
              /\ UNCHANGED proc
         [] outcome = "ok" ->
              /\ load' = [load EXCEPT ![c].pc = "list", ![c].kind = k,
                                      ![c].todo = @ \ {k}]
              /\ UNCHANGED <<proc, lookup>>
    /\ UNCHANGED <<cfgVars, hookVars, update, sanVars, worldVars, lifeVars,
                   once, initObjects, listCalls>>

\* generic.go:465-477: with an error the client returns no list; IsNotFound
\* is let through, any other error ends the process
ListKind(c, outcome) ==
    /\ proc = "running"
    /\ load[c].pc = "list"
    /\ listCalls' = [listCalls EXCEPT ![load[c].kind] = @ + 1]
    /\ CASE outcome = "error" ->              \* os.Exit(1)
              /\ proc' = "exited"
              /\ UNCHANGED <<load, lookup>>
         [] outcome = "notfound" ->
              /\ load' = [load EXCEPT ![c].pc = "each", ![c].list = NilItems]
              /\ lookup' = [lookup EXCEPT ![load[c].kind] = outcome]
              /\ UNCHANGED proc
         [] outcome = "ok" ->
              /\ load' = [load EXCEPT ![c].pc = "each",
                                      ![c].list = List(ItemsOf(load[c].kind))]
              /\ lookup' = [lookup EXCEPT ![load[c].kind] = outcome]
              /\ UNCHANGED proc
    /\ UNCHANGED <<cfgVars, hookVars, update, sanVars, worldVars, lifeVars,
                   once, initObjects>>

\* generic.go:479-482: list.EachListItem reads list.Items; on a nil list that
\* is a nil pointer dereference
EachListItem(c) ==
    /\ proc = "running"
    /\ load[c].pc = "each"
    /\ IF load[c].list.isNil
       THEN /\ load' = [load EXCEPT ![c].pc = "panic"]
            /\ UNCHANGED initObjects
       ELSE /\ initObjects' = initObjects \o load[c].list.items
            /\ load' = [load EXCEPT ![c].pc = "range", ![c].kind = "",
                                    ![c].list = NilItems]
    /\ UNCHANGED <<cfgVars, hookVars, update, sanVars, worldVars, lifeVars,
                   once, proc, listCalls, lookup>>

\* the function of once.Do returns, generic.go:485: the once is done and its
\* mutex released
OnceDone(c) ==
    /\ proc = "running"
    /\ load[c].pc = "range"
    /\ load[c].todo = {}
    /\ once' = [done |-> TRUE, m |-> 0]
    /\ load' = [load EXCEPT ![c].pc = "return"]
    /\ UNCHANGED <<cfgVars, hookVars, update, sanVars, worldVars, lifeVars,
                   initObjects, proc, listCalls, lookup>>

\* a panic in the function unwinds through once.Do, whose deferred calls mark
\* the once done and release its mutex, ...
OncePanic(c) ==
    /\ proc = "running"
    /\ load[c].pc = "panic"
    /\ once' = [done |-> TRUE, m |-> 0]
    /\ load' = [load EXCEPT ![c].pc = "unwind"]
    /\ UNCHANGED <<cfgVars, hookVars, update, sanVars, worldVars, lifeVars,
                   initObjects, proc, listCalls, lookup>>

\* ... and, recovered nowhere, ends the process
Crash(c) ==
    /\ proc = "running"
    /\ load[c].pc = "unwind"
    /\ proc' = "panicked"
    /\ UNCHANGED <<cfgVars, hookVars, update, sanVars, worldVars, lifeVars,
                   once, initObjects, listCalls, lookup, load>>

\* generic.go:487
LoadReturn(c) ==
    /\ proc = "running"
    /\ load[c].pc = "return"
    /\ load' = [load EXCEPT ![c].pc = "done", ![c].ret = initObjects]
    /\ UNCHANGED <<cfgVars, hookVars, update, sanVars, worldVars, lifeVars,
                   once, initObjects, proc, listCalls, lookup>>

\* plugins/generic:52
HookSuppliedMut == TRUE

HookSupplied == postBindHook # "nil"

HookOptions == {"nil", "hook"}
HookErrors == {"", "hook failed"}

\* plugins/generic:51-57, called by the engine once Bind has succeeded: the
\* hook, when there is one, is called with the pod; the status made of its
\* error is dropped
PostBind(b, hookErr) ==
    /\ post[b].pc = "due"
    /\ IF HookSupplied
       THEN post' = [post EXCEPT ![b].pc = "done", ![b].calls = @ + 1,
                                 ![b].arg = post[b].pod, ![b].err = hookErr]
       ELSE post' = [post EXCEPT ![b].pc = "done"]
    /\ UNCHANGED <<cfgVars, postBindHook, update, loadVars, sanVars, worldVars,
                   lifeVars>>

----------------
(* One call of preAdd *)

NotCalled == [called |-> FALSE, fault |-> FALSE, needAdd |-> FALSE,
              obj |-> NilObject]

PreAddCall ==
    /\ ~res.called
    /\ LET r == preAdd(arg) IN
        res' = [called |-> TRUE, fault |-> r.fault, needAdd |-> r.needAdd,
                obj |-> r.obj]
    /\ UNCHANGED <<cfgVars, hookVars, update, loadVars, arg, worldVars,
                   lifeVars>>

----------------------------------------------------------------------------
(* Inputs *)

OwnerLists == {NilList, List(<<>>), List(<<"DaemonSet">>),
               List(<<"ReplicaSet">>), List(<<"ReplicaSet", "DaemonSet">>)}
Phases == {"Pending", "Running", "Succeeded", "Failed"}
ImageLists == {List(<<>>), List(<<"img">>)}

SanitizeInputs ==
    {Pod("p", n, ph, o, d) : n \in NodeNames \cup {""}, ph \in Phases,
                             o \in OwnerLists, d \in BOOLEAN}
    \cup {Node(n, i) : n \in NodeNames, i \in ImageLists}
    \cup {Object("Namespace", "", "default")}

ExcludeSets == {NilSet, StringSet({}), StringSet({"n1"}),
                StringSet({"n1", "n2"})}

nodeN1 == Node("n1", List(<<"img">>))
nodeN2 == Node("n2", List(<<"img">>))
dsPod == Pod("ds", "n1", "Pending", List(<<"DaemonSet">>), FALSE)
plainPod == Pod("web", "n1", "Running", NilList, FALSE)

WorldObjects == {nodeN1, dsPod, plainPod}
MaxObjs == 3
\* the lists of at most MaxObjs distinct objects of S
ListsOf(S) ==
    {l \in UNION {[1..n -> S] : n \in 1..MaxObjs} :
        \A i, j \in DOMAIN l : i # j => l[i] # l[j]}

\* the objects of the calls of InitTheWorld that fail: a pod with the
\* identity of plainPod that preAdd drops, an untyped object, and a pod with
\* an empty owner list
donePod == Pod("web", "n1", "Succeeded", NilList, FALSE)
untyped == [Object("ConfigMap", "default", "cm") EXCEPT !.unstructured = TRUE]
jobPod == Pod("job", "n1", "Running", List(<<>>), FALSE)

InitObjects == {nodeN1, plainPod, donePod, untyped, jobPod}

\* the argument lists of InitTheWorld in each specification
WorldLists == ListsOf(WorldObjects)
InitLists == ListsOf(InitObjects)
BindLists == ListsOf({nodeN1, plainPod})
NodeLists == ListsOf({nodeN1})
ExcludeLists == ListsOf({nodeN1, nodeN2, plainPod})

PodKeys == {Key(o) : o \in {x \in WorldObjects : x.kind = "Pod"}}

----------------------------------------------------------------------------
(* Specifications *)

\* NewGenericSimulator, generic.go:188-199, before the options are applied
LifeConstructed ==
    /\ stopped = FALSE
    /\ stopMux = 0
    /\ closed = [ch \in Channels |-> 0]
    /\ status = EmptyStatus
    /\ file = NoFile
    /\ stop = [c \in StopCalls |-> IdleStop]
    /\ run = [pc |-> "idle", ret |-> ""]
    /\ synced = FALSE
    /\ engine = "new"

Constructed ==
    /\ arg = NilObject
    /\ res = NotCalled
    /\ store = <<>>
    /\ last = NoCall
    /\ bind = [b \in BindCalls |-> IdleBind]
    /\ LifeConstructed
    /\ LoaderConstructed
    /\ post = [b \in BindCalls |-> IdlePost]
    /\ update = [u \in UpdateCalls |-> IdleUpdate]

InitPreAdd ==
    /\ excludeNodes \in ExcludeSets
    /\ withScheduledPods \in BOOLEAN
    /\ withNodeImages \in BOOLEAN
    /\ ignorePodsOnExcludesNode \in BOOLEAN
    /\ saveTo = ""
    /\ postBindHook = "nil"
    /\ arg \in SanitizeInputs
    /\ res = NotCalled
    /\ store = <<>>
    /\ last = NoCall
    /\ bind = [b \in BindCalls |-> IdleBind]
    /\ LifeConstructed
    /\ LoaderConstructed
    /\ post = [b \in BindCalls |-> IdlePost]
    /\ update = [u \in UpdateCalls |-> IdleUpdate]

NextPreAdd == PreAddCall

SpecPreAdd == InitPreAdd /\ [][NextPreAdd]_vars

InitWorld ==
    /\ excludeNodes \in {NilSet, StringSet({"n1"})}
    /\ withScheduledPods = TRUE
    /\ withNodeImages = TRUE
    \* the flag is read only with an exclusion set, generic.go:404-406
    /\ ignorePodsOnExcludesNode \in (IF excludeNodes.isNil THEN {FALSE}
                                      ELSE BOOLEAN)
    /\ saveTo = ""
    /\ postBindHook = "nil"
    /\ Constructed

NextWorld ==
    \/ \E objs \in WorldLists : InitTheWorld(objs)
    \/ \E o \in WorldObjects : o.kind = "Pod" /\ CreatePod(o)
    \/ \E b \in BindCalls, k \in PodKeys, n \in NodeNames, refused \in BOOLEAN :
            BindGet(b, k, n, refused)
    \/ \E b \in BindCalls, refused \in BOOLEAN : BindUpdate(b, refused)
    \/ \E b \in BindCalls, hookErr \in HookErrors : PostBind(b, hookErr)

SpecWorld == InitWorld /\ [][NextWorld]_vars

Init ==
    /\ excludeNodes = NilSet
    /\ withScheduledPods = TRUE
    /\ withNodeImages = TRUE
    /\ ignorePodsOnExcludesNode = FALSE
    /\ saveTo \in {"", "status.json"}
    /\ postBindHook = "nil"
    /\ Constructed

Next ==
    \/ \E objs \in NodeLists : InitTheWorld(objs)
    \/ \E c \in StopCalls, reason \in Reasons : StopList(c, reason)
    \/ \E c \in StopCalls : StopLock(c)
    \/ \E c \in StopCalls : StopCheck(c)
    \/ \E c \in StopCalls : StopSave(c)
    \/ \E c \in StopCalls : StopSetReason(c)
    \/ \E c \in StopCalls : StopSetNodes(c)
    \/ \E c \in StopCalls : StopSetStopped(c)
    \/ \E c \in StopCalls : StopClose(c)
    \/ \E c \in StopCalls : StopUnlock(c)
    \/ InformerSync
    \/ RunCall
    \/ RunStartEngine
    \/ SchedulerRun
    \/ ScheduleOne
    \/ RunReturn

Spec == Init /\ [][Next]_vars

\* every goroutine that can take a step takes one in the end: the Stop calls,
\* Run, the informers and the engine's run loop
Fairness ==
    /\ \A c \in StopCalls :
          WF_vars(\/ StopLock(c) \/ StopCheck(c) \/ StopSave(c)
                  \/ StopSetReason(c) \/ StopSetNodes(c) \/ StopSetStopped(c)
                  \/ StopClose(c) \/ StopUnlock(c))
    /\ WF_vars(InformerSync)
    /\ WF_vars(RunStartEngine \/ RunReturn)
    /\ WF_vars(SchedulerRun \/ ScheduleOne)

SpecFair == Init /\ [][Next]_vars /\ Fairness

\* the binding cycles of the engine on a store holding the plain pod, with
\* and without a result-capture hook
InitBind ==
    /\ excludeNodes = NilSet
    /\ withScheduledPods = TRUE
    /\ withNodeImages = TRUE
    /\ ignorePodsOnExcludesNode = FALSE
    /\ saveTo = ""
    /\ postBindHook \in HookOptions
    /\ Constructed

NextBind ==
    \/ \E objs \in BindLists : InitTheWorld(objs)
    \/ \E b \in BindCalls, k \in PodKeys, n \in NodeNames, refused \in BOOLEAN :
            BindGet(b, k, n, refused)
    \/ \E b \in BindCalls, refused \in BOOLEAN : BindUpdate(b, refused)
    \/ \E b \in BindCalls, hookErr \in HookErrors : PostBind(b, hookErr)

SpecBind == InitBind /\ [][NextBind]_vars

\* the writers of the Status: the Stop calls and the update calls, all at once
InitStatus ==
    /\ excludeNodes = NilSet
    /\ withScheduledPods = TRUE
    /\ withNodeImages = TRUE
    /\ ignorePodsOnExcludesNode = FALSE
    /\ saveTo = ""
    /\ postBindHook = "nil"
    /\ Constructed

NextStatus ==
    \/ \E u \in UpdateCalls : UpdateScheduledPods(u, <<plainPod>>)
    \/ \E u \in UpdateCalls, n \in NodeNames : UpdateNodesToScaleDown(u, n)
    \/ \E u \in UpdateCalls : UpdateWrite(u)
    \/ \E c \in StopCalls, reason \in Reasons : StopList(c, reason)
    \/ \E c \in StopCalls : StopLock(c)
    \/ \E c \in StopCalls : StopCheck(c)
    \/ \E c \in StopCalls : StopSave(c)
    \/ \E c \in StopCalls : StopSetReason(c)
    \/ \E c \in StopCalls : StopSetNodes(c)
    \/ \E c \in StopCalls : StopSetStopped(c)
    \/ \E c \in StopCalls : StopClose(c)
    \/ \E c \in StopCalls : StopUnlock(c)

SpecStatus == InitStatus /\ [][NextStatus]_vars

\* a simulator configured with the exclusion set {n1}: the world is loaded
\* from an excluded and a kept node, pods are created and bound, and Stop
\* gathers the nodes of the store into the Status
InitExclude ==
    /\ excludeNodes = StringSet({"n1"})
    /\ withScheduledPods = TRUE
    /\ withNodeImages \in BOOLEAN
    /\ ignorePodsOnExcludesNode = FALSE
    /\ saveTo = ""
    /\ postBindHook = "nil"
    /\ Constructed

NextExclude ==
    \/ \E objs \in ExcludeLists : InitTheWorld(objs)
    \/ CreatePod(plainPod)
    \/ \E n \in NodeNames, refused \in BOOLEAN :
            BindGet(1, Key(plainPod), n, refused)
    \/ \E refused \in BOOLEAN : BindUpdate(1, refused)
    \/ \E hookErr \in HookErrors : PostBind(1, hookErr)
    \/ \E reason \in Reasons : StopList(1, reason)
    \/ StopLock(1)
    \/ StopCheck(1)
    \/ StopSave(1)
    \/ StopSetReason(1)
    \/ StopSetNodes(1)
    \/ StopSetStopped(1)
    \/ StopClose(1)
    \/ StopUnlock(1)

SpecExclude == InitExclude /\ [][NextExclude]_vars

\* InitTheWorld alone, called again and again with explicit objects
InitInit ==
    /\ excludeNodes \in {NilSet, StringSet({"n1"})}
    /\ withScheduledPods = TRUE
    /\ withNodeImages = TRUE
    /\ ignorePodsOnExcludesNode = FALSE
    /\ saveTo = ""
    /\ postBindHook = "nil"
    /\ Constructed

NextInit == \E objs \in InitLists : InitTheWorld(objs)

SpecInit == InitInit /\ [][NextInit]_vars

\* the Loader alone: its calls run at once, the cluster answers as it likes
InitLoader ==
    /\ excludeNodes = NilSet
    /\ withScheduledPods = TRUE
    /\ withNodeImages = TRUE
    /\ ignorePodsOnExcludesNode = FALSE
    /\ saveTo = ""
    /\ postBindHook = "nil"
    /\ Constructed

NextLoader ==
    \/ \E c \in LoadCalls : GetInitObjects(c)
    \/ \E c \in LoadCalls : OnceDo(c)
    \/ \E c \in LoadCalls, k \in Kinds, outcome \in MappingOutcomes :
            ResolveKind(c, k, outcome)
    \/ \E c \in LoadCalls, outcome \in ListOutcomes : ListKind(c, outcome)
    \/ \E c \in LoadCalls : EachListItem(c)
    \/ \E c \in LoadCalls : OnceDone(c)
    \/ \E c \in LoadCalls : OncePanic(c)
    \/ \E c \in LoadCalls : Crash(c)
    \/ \E c \in LoadCalls : LoadReturn(c)

SpecLoader == InitLoader /\ [][NextLoader]_vars

----------------------------------------------------------------------------
(* Claims about Stop and Run, checked under Spec *)

AllClosed == \A ch \in Channels : IsClosed(ch)

\* C1: without a persistence path, whatever the number and interleaving of
\* Stop calls, no signal is closed twice (closed counts the close attempts),
\* every call that has returned returned nil, and once a call has returned
\* each of the three signals has been closed exactly once.
StopIdempotent ==
    saveTo = "" =>
        /\ \A ch \in Channels : closed[ch] <= 1
        /\ \A c \in StopCalls : stop[c].pc = "done" =>
              /\ stop[c].ret = "nil"
              /\ \A ch \in Channels : closed[ch] = 1

\* every Stop call has returned, one of them after the shutdown, the others
\* after finding the simulator stopped
StopIdempotentWitness ==
    /\ saveTo = ""
    /\ \A c \in StopCalls : stop[c].pc = "done" /\ stop[c].ret = "nil"
    /\ \E c, d \in StopCalls : stop[c].performed /\ ~stop[d].performed
    /\ \A ch \in Channels : closed[ch] = 1

\* C2: a Stop call whose save failed (open, marshal or write) has returned
\* the failure as an error, and the three signals are closed all the same.
SaveFailureStillStops ==
    \A c \in StopCalls :
        (stop[c].pc = "done" /\ stop[c].save \in {"open", "marshal", "write"})
            => stop[c].ret = "error" /\ AllClosed

\* the node names of a written document
DocNodeNames(doc) == IF doc.nodes.null THEN {} ELSE DOMAIN doc.nodes.value

\* C3: once a Stop call has written the document and recorded its node map
\* in Status.Nodes, the document's node map is that node map.
SavedNodesMatchStatus ==
    \A c \in StopCalls :
        (stop[c].save = "ok" /\ stop[c].performed)
            => /\ file.state = "written"
               /\ DocNodeNames(file.doc) = DOMAIN status.Nodes.m

\* C4: when Run has returned, the simulator-stop signal is closed, the
\* simulator is marked stopped, and Status.StopReason is the reason of the
\* Stop call that went through the shutdown.
RunReturnsAfterStop ==
    run.pc = "done" =>
        /\ IsClosed("stopCh")
        /\ stopped
        /\ \E c \in StopCalls : stop[c].performed
        /\ \A c \in StopCalls :
              stop[c].performed => status.StopReason = stop[c].reason

\* Run has returned while another Stop call, with another reason, is still
\* on its way
RunReturnsAfterStopWitness ==
    /\ run.pc = "done"
    /\ \E c, d \in StopCalls :
          /\ stop[c].performed
          /\ stop[d].pc = "lock"
          /\ stop[d].reason # stop[c].reason

----------------------------------------------------------------------------
(* Claims about Bind and InitTheWorld, checked under SpecWorld *)

\* C5: when a Bind(P, N) has returned success, the store holds P with
\* nodeName = N and phase = Running.
BindRoundTrip ==
    (last.op = "Bind" /\ last.ret = "Success") =>
        /\ Has(store, last.args[1])
        /\ store[last.args[1]].nodeName = last.args[2]
        /\ store[last.args[1]].phase = "Running"

\* the plain pod, which InitTheWorld stored on n1, has been bound to n2
BindRoundTripWitness ==
    /\ last.op = "Bind"
    /\ last.ret = "Success"
    /\ last.args = <<Key(plainPod), "n2">>
    /\ withScheduledPods
    /\ \E b \in BindCalls : bind[b].pc = "done" /\ bind[b].updates = 1
    /\ store[Key(plainPod)].nodeName = "n2"

\* C6: a step in which a Bind call returns after its Get or its Update
\* failed returns the Error status, leaves the store as it was, and the call
\* has made one Get and at most one Update.
BindFailureIsReported ==
    [][\A b \in BindCalls :
        (bind[b].pc # "done" /\ bind'[b].pc = "done" /\ last'.cause # "")
            => /\ last'.op = "Bind"
               /\ last'.ret = "Error"
               /\ store' = store
               /\ bind'[b].gets = 1
               /\ bind'[b].updates <= 1]_vars

\* a Bind whose Update was refused has returned Error, the pod still as it
\* was read
BindFailureIsReportedWitness ==
    /\ last.op = "Bind"
    /\ last.cause = "update"
    /\ last.ret = "Error"
    /\ Has(store, last.args[1])
    /\ store[last.args[1]].nodeName # last.args[2]

\* scenario B: the excluded node, the DaemonSet pod and the plain pod on it,
\* handed in any order to InitTheWorld on an empty store
ScenarioB ==
    /\ last.op = "InitTheWorld"
    /\ last.fresh
    /\ {last.args[i] : i \in DOMAIN last.args} = {nodeN1, dsPod, plainPod}
    /\ excludeNodes = StringSet({"n1"})
    /\ ~ignorePodsOnExcludesNode

\* C8 as stated: after scenario B the store holds the DaemonSet pod and not
\* the plain pod.
ScenarioBKeepsDaemonSetPod ==
    ScenarioB => Has(store, Key(dsPod)) /\ ~Has(store, Key(plainPod))

\* C8 as the code has it: after scenario B the store holds the plain pod and
\* not the DaemonSet pod.
ScenarioBKeepsPlainPod ==
    ScenarioB => ~Has(store, Key(dsPod)) /\ Has(store, Key(plainPod))

ScenarioBWitness ==
    /\ ScenarioB
    /\ last.ret = "nil"
    /\ DOMAIN store = {Key(plainPod)}

----------------------------------------------------------------------------
(* Claims about preAdd, checked under SpecPreAdd *)

Excluded(name) == ~excludeNodes.isNil /\ name \in excludeNodes.names

Terminal(pod) == pod.phase = "Succeeded" \/ pod.phase = "Failed"

HasOwner(pod, kind) ==
    \E i \in DOMAIN pod.ownerRefs.items : pod.ownerRefs.items[i] = kind

FirstOwner(pod, kind) ==
    Len(pod.ownerRefs.items) > 0 /\ pod.ownerRefs.items[1] = kind

LivePodOnExcludedNode ==
    /\ res.called
    /\ arg.kind = "Pod"
    /\ ~Terminal(arg)
    /\ ~arg.deleted
    /\ Excluded(arg.nodeName)

\* C7 as stated: a live DaemonSet-owned pod on an excluded node is included
\* exactly when "ignore pods on excluded nodes" is false.
DaemonSetCarveOut ==
    (LivePodOnExcludedNode /\ HasOwner(arg, "DaemonSet"))
        => ~res.fault /\ res.needAdd = ~ignorePodsOnExcludesNode

\* C7 as the code has it: a live pod on an excluded node whose first owner
\* is a DaemonSet is dropped, whatever the ignore flag.
DaemonSetPodDropped ==
    (LivePodOnExcludedNode /\ FirstOwner(arg, "DaemonSet"))
        => ~res.fault /\ ~res.needAdd

DaemonSetPodDroppedWitness ==
    /\ LivePodOnExcludedNode
    /\ FirstOwner(arg, "DaemonSet")
    /\ ~ignorePodsOnExcludesNode
    /\ ~res.needAdd

\* C9: a Node whose name is in the exclusion set is dropped, whatever the
\* three flags.
ExcludedNodeDropped ==
    (res.called /\ arg.kind = "Node" /\ Excluded(arg.name))
        => ~res.fault /\ ~res.needAdd

ExcludedNodeDroppedWitness ==
    /\ res.called
    /\ arg.kind = "Node"
    /\ Excluded(arg.name)
    /\ withScheduledPods /\ withNodeImages /\ ~ignorePodsOnExcludesNode
    /\ ~res.needAdd

\* C11: with "with scheduled pods" false, every pod that preAdd includes comes
\* back Pending and without a node assignment.
ResetOnUnscheduled ==
    (res.called /\ arg.kind = "Pod" /\ ~withScheduledPods /\ res.needAdd)
        => /\ res.obj.kind = "Pod"
           /\ res.obj.phase = "Pending"
           /\ res.obj.nodeName = ""

\* a Running pod assigned to n2 came back reset
ResetOnUnscheduledWitness ==
    /\ res.called
    /\ arg.kind = "Pod" /\ arg.phase = "Running" /\ arg.nodeName = "n2"
    /\ ~withScheduledPods
    /\ res.needAdd
    /\ res.obj.phase = "Pending" /\ res.obj.nodeName = ""

\* C12: with "with node images" false, every node that preAdd includes comes
\* back with an empty image inventory, with or without an exclusion set.
NodeImagesCleared ==
    (res.called /\ arg.kind = "Node" /\ ~withNodeImages /\ res.needAdd)
        => Len(res.obj.images.items) = 0

\* C10: a pod that is Succeeded, Failed or marked deleted is dropped by
\* preAdd, whatever the exclusion set and the flags.
TerminalPodDropped ==
    (res.called /\ arg.kind = "Pod" /\ (Terminal(arg) \/ arg.deleted))
        => ~res.fault /\ ~res.needAdd

\* C23: preAdd is total on the pods of an excluded node: whatever the owner
\* list (nil, empty, one owner, several owners), it returns a decision without
\* a fault, and a pod with a DaemonSet anywhere among its owners is dropped
\* as DaemonSet-owned.
PreAddTotalOnExcludedNode ==
    (res.called /\ arg.kind = "Pod" /\ Excluded(arg.nodeName))
        => /\ ~res.fault
           /\ HasOwner(arg, "DaemonSet") => ~res.needAdd

----------------------------------------------------------------------------
(* Claims about the Loader, checked under SpecLoader *)

\* C13: no kind is listed more than once, and every Loader call that has
\* returned returned the cached set, with every kind looked up: each kind
\* that gave a list contributes its objects, the others none.
LoaderSingleFetch ==
    /\ \A k \in Kinds : listCalls[k] <= 1
    /\ \A c \in LoadCalls : load[c].pc = "done" =>
          /\ load[c].ret = initObjects
          /\ \A k \in Kinds : lookup[k] # ""
          /\ \A k \in Kinds :
                (lookup[k] = "ok") <=>
                    (\E i \in DOMAIN load[c].ret : load[c].ret[i] = k)

\* C19: a kind whose list answered "not found", or whose mapping answered
\* "no match", brings no fault: the loader goes on and the process lives.
NotFoundIsEmpty ==
    (\E k \in Kinds : lookup[k] \in {"notfound", "nomatch"})
        => /\ proc = "running"
           /\ \A c \in LoadCalls : load[c].pc \notin {"panic", "unwind"}

----------------------------------------------------------------------------
(* Claims about InitTheWorld with explicit objects, checked under SpecInit *)

Least(S) == CHOOSE i \in S : \A j \in S : i <= j

\* the identity of the i-th object is in st or among the objects before it
\* that preAdd includes
IdentityExists(st, objs, i) ==
    \/ Key(objs[i]) \in DOMAIN st
    \/ \E j \in 1..(i - 1) :
          ~objs[j].unstructured /\ preAdd(objs[j]).needAdd
              /\ Key(objs[j]) = Key(objs[i])

\* where a call stops as the claim has it: at an untyped object or at one
\* whose identity exists
StopsAsStated(st, objs, i) ==
    objs[i].unstructured \/ IdentityExists(st, objs, i)

\* where a call stops: at an untyped object, at a pod preAdd faults on, or at
\* an object preAdd includes whose identity exists
StopsAt(st, objs, i) ==
    \/ objs[i].unstructured
    \/ preAdd(objs[i]).fault
    \/ preAdd(objs[i]).needAdd /\ IdentityExists(st, objs, i)

\* what a call stopping at n, or at no object when n is past the last one,
\* returns and leaves in the store
StoppedAt(objs, n) ==
    LET kept == {j \in 1..(n - 1) : preAdd(objs[j]).needAdd} IN
    /\ last'.ret = IF n > Len(objs) THEN "nil"
                   ELSE IF objs[n].unstructured THEN "unstructured"
                   ELSE IF preAdd(objs[n]).fault THEN "panic"
                   ELSE "exists"
    /\ DOMAIN store' = DOMAIN store \cup {Key(objs[j]) : j \in kept}
    /\ \A k \in DOMAIN store : store'[k] = store[k]
    /\ \A j \in kept : store'[Key(objs[j])] = preAdd(objs[j]).obj

\* C14 as stated: a call that meets no fault of preAdd stops, with an error,
\* at the first object that is untyped or whose identity exists; what was
\* inserted before it stays, it and the objects after it are not inserted.
InitAbortsAtFirstDuplicate ==
    [][LET objs == last'.args
           stops == {i \in DOMAIN objs : StopsAsStated(store, objs, i)}
       IN  (/\ last'.op = "InitTheWorld"
            /\ stops # {}
            /\ \A i \in DOMAIN objs : ~preAdd(objs[i]).fault)
               => /\ last'.ret \in {"unstructured", "exists"}
                  /\ StoppedAt(objs, Least(stops))]_vars

\* C14 as the code has it: a call goes through its objects in order up to
\* the first that is untyped (an error), that preAdd faults on (a panic), or
\* that preAdd includes and whose identity exists (an error); the objects
\* preAdd included before it are in the store, nothing else has changed, and
\* an object preAdd drops stops nothing, whatever its identity.
InitStopsAtFirstFailure ==
    [][LET objs == last'.args
           stops == {i \in DOMAIN objs : StopsAt(store, objs, i)}
       IN  last'.op = "InitTheWorld"
               => StoppedAt(objs, IF stops = {} THEN Len(objs) + 1
                                  ELSE Least(stops))]_vars

\* a call on a store already holding the plain pod inserted the node, was
\* refused the plain pod, and never came to the third object
InitStopsAtFirstFailureWitness ==
    /\ last.op = "InitTheWorld"
    /\ last.ret = "exists"
    /\ last.args = <<nodeN1, plainPod, jobPod>>
    /\ DOMAIN store = {Key(nodeN1), Key(plainPod)}

----------------------------------------------------------------------------
(* Claims about PostBind, checked under SpecBind *)

\* C18: a PostBind call calls the hook once, with the pod, when there is a
\* hook, and not at all when there is none; whatever the hook returns, the
\* step leaves the status Bind returned, the store, the Bind calls, the
\* stopped flag and the signals as they were.
PostBindCallsHookOnce ==
    [][\A b \in BindCalls :
        (post[b].pc = "due" /\ post'[b].pc = "done")
            => /\ post'[b].calls = IF postBindHook = "nil" THEN 0 ELSE 1
               /\ postBindHook # "nil" => post'[b].arg = post[b].pod
               /\ last' = last
               /\ store' = store
               /\ bind' = bind
               /\ stopped' = stopped
               /\ closed' = closed]_vars

\* the hook failed after the plain pod was bound to n2: the pod is still
\* bound and Running, Bind's status is Success, nothing is stopped
PostBindCallsHookOnceWitness ==
    /\ \E b \in BindCalls :
          /\ post[b].pc = "done"
          /\ post[b].calls = 1
          /\ post[b].arg = Key(plainPod)
          /\ post[b].err # ""
    /\ last.op = "Bind" /\ last.ret = "Success"
    /\ store[Key(plainPod)].nodeName = "n2"
    /\ store[Key(plainPod)].phase = "Running"
    /\ ~stopped

----------------------------------------------------------------------------
(* Claims about the engine's run loop, checked under SpecFair *)

\* C20: once Stop has closed the engine-stop signal, the run loop that Run
\* started ends.
EngineEndsAfterStop ==
    (IsClosed("schedulerCh") /\ engine \in {"running", "cycle"})
        ~> (engine = "ended")

\* C24: stopped is terminal: once a Stop call has completed the shutdown, a
\* Run call made after it returns without blocking, and no run loop of the
\* engine is started from then on.
StoppedIsTerminal ==
    []((ShutdownComplete /\ run.pc = "idle")
          => /\ [](engine = "new")
             /\ [](run.pc \in {"sync", "wait"} => <>(run.pc = "done")))

----------------------------------------------------------------------------
(* Claims about the Status, checked under SpecStatus and Spec *)

\* the calls that are reading or writing the Status
StatusWriters ==
    {<<"update", u>> : u \in {v \in UpdateCalls : update[v].pc = "write"}}
    \cup {<<"stop", c>> : c \in {d \in StopCalls :
                                    stop[d].pc \in {"save", "reason", "nodes"}}}

\* C15: the writes of the Status are serialized: no two calls are inside a
\* write of the Status at once, and what an update call that has returned
\* appended is in the Status.
StatusWritesSerialized ==
    /\ Cardinality(StatusWriters) <= 1
    /\ \A u \in UpdateCalls : update[u].pc = "done" =>
          \A i \in DOMAIN update[u].x :
              \E j \in DOMAIN status[FieldOf(update[u].op)].items :
                  status[FieldOf(update[u].op)].items[j] = update[u].x[i]

\* C16: once a Stop call has gone through the shutdown and returned, no step
\* changes the Status.
StatusFrozenAtStop ==
    [][ShutdownComplete => status' = status]_vars

\* C17: a Stop call made after the shutdown was complete changes neither the
\* Status nor the file nor a signal nor the stopped flag in any of its steps,
\* and returns nil.
LateStopIsNoOp ==
    [][\A c \in StopCalls :
        (stop'[c].late /\ stop'[c] # stop[c])
            => /\ status'.StopReason = status.StopReason
               /\ status'.Nodes = status.Nodes
               /\ file' = file
               /\ closed' = closed
               /\ stopped' = stopped
               /\ stop'[c].pc = "done" => stop'[c].ret = "nil"]_vars

\* the second Stop, with another reason and with a node in the store that
\* the first did not see, has returned; the file and the Status are those of
\* the first
LateStopIsNoOpWitness ==
    /\ saveTo # ""
    /\ \E c, d \in StopCalls :
          /\ stop[c].performed /\ stop[c].pc = "done" /\ stop[c].save = "ok"
          /\ stop[d].late /\ stop[d].pc = "done" /\ stop[d].ret = "nil"
          /\ stop[d].reason # stop[c].reason
          /\ status.StopReason = stop[c].reason
    /\ Has(store, Key(nodeN1))
    /\ status.Nodes = Map(<<>>)
    /\ \A ch \in Channels : closed[ch] = 1

----------------------------------------------------------------------------
(* Claims about the lifecycle signals, checked under Spec *)

\* C21: whenever no Stop call holds stopMux, the three signals are all open
\* or all closed, and they are all closed exactly when stopped is set; and a
\* closed signal stays closed.
SignalsMoveTogether ==
    /\ [](stopMux = 0 =>
            /\ AllClosed \/ \A ch \in Channels : ~IsClosed(ch)
            /\ AllClosed <=> stopped)
    /\ [][\A ch \in Channels : IsClosed(ch) => closed'[ch] >= closed[ch]]_vars

\* with a persistence path: one Stop call failed to save and left the signals
\* open, the next went through the shutdown, and Run has returned
SignalsMoveTogetherWitness ==
    /\ stopMux = 0
    /\ stopped
    /\ AllClosed
    /\ \E c, d \in StopCalls :
          /\ stop[c].pc = "done" /\ stop[c].ret = "error"
          /\ stop[d].pc = "done" /\ stop[d].performed
    /\ run.pc = "done"

----------------------------------------------------------------------------
(* Claims about the exclusion set, checked under SpecExclude *)

\* C22: with an exclusion set configured, whatever InitTheWorld, CreatePod,
\* Bind and Stop have done, no Node named in the set is in the store, and
\* none is in Status.Nodes.
NoExcludedNodeStored ==
    /\ \A k \in DOMAIN store : k[1] = "Node" => ~Excluded(k[3])
    /\ \A n \in DOMAIN status.Nodes.m : ~Excluded(n)

\* the world was loaded from the excluded node and the kept one, the pod was
\* bound, and a Stop call has written the nodes it gathered into the Status
NoExcludedNodeStoredWitness ==
    /\ Excluded("n1")
    /\ last.op = "InitTheWorld"
    /\ \E i \in DOMAIN last.args : last.args[i] = nodeN1
    /\ Has(store, Key(nodeN2))
    /\ Has(store, Key(plainPod))
    /\ bind[1].pc = "done"
    /\ bind[1].updates = 1
    /\ stop[1].pc = "done"
    /\ stop[1].performed
    /\ DOMAIN status.Nodes.m = {"n2"}

====
